---- MODULE Spec2Model ----
(***************************************************************************)
(* A model of OdinDataClient (tools/python/odin_data/odin_data_client.py): *)
(* the configuration trees and their setters, the message id counter, the  *)
(* command dispatcher and the composite operations built from them.        *)
(*                                                                         *)
(* A configuration tree (a nested Python dict) is a record                 *)
(*   [secs   : the set of paths that hold a nested dict,                   *)
(*    leaves : a function from the paths that hold a scalar to the scalar] *)
(* where a path is the sequence of keys from the root.                     *)
(*                                                                         *)
(* A message id is kept at its 32 bit width as two 16 bit limbs,           *)
(* [hi, lo] standing for hi * 2^16 + lo.                                   *)
(***************************************************************************)
EXTENDS Integers, Sequences, FiniteSets, TLC

VARIABLES
    fr_config,      \* self.fr_config: the receiver tree
    fp_config,      \* self.fp_config: the processor tree
    fp_plugins,     \* self.fp_plugins: the plugin chain, a sequence of trees
    frames,         \* self.frames
    file_path,      \* self.file_path
    file_name,      \* self.file_name
    _msg_id,        \* self._msg_id
    sent,           \* every command handed to channel.send, in order
    reply,          \* whether the latest _send_cmd returned a reply
    pc,             \* position of the caller inside the running method
    idx,            \* loop index of the running method
    op,             \* name of the method called last
    arg,            \* its argument
    mark,           \* Len(sent) when that method was called
    ncalls,         \* number of methods called so far
    reply_id,       \* the id in the reply the latest _send_cmd returned
    inbox,          \* per endpoint, the ids of the replies readable on it
    io,             \* the channel calls of the latest step
    logged,         \* the log records of the latest step
    args,           \* self.args
    stage,          \* the statement of run that is next
    peers           \* whether the peers may answer after the timeout

vars == <<fr_config, fp_config, fp_plugins, frames, file_path, file_name,
          _msg_id, sent, reply, pc, idx, op, arg, mark, ncalls,
          reply_id, inbox, io, logged, args, stage, peers>>

(***************************************************************************)
(* Bounds and input sets.                                                  *)
(***************************************************************************)
MaxCalls == 3

MaxOptions == 3

FrameVals == {0, 5}
PathVals == {"/data"}
NameVals == {"run.h5"}
BitVals == {1, 6, 8, 12, 16, 24}

(***************************************************************************)
(* Configuration trees.                                                    *)
(***************************************************************************)
EmptyLeaves == [p \in {} |-> 0]

EmptyTree == [secs |-> {}, leaves |-> EmptyLeaves]

IsPrefix(p, q) == Len(p) <= Len(q) /\ SubSeq(q, 1, Len(p)) = p

\* key in dict, for the dict that holds the last key of path
Has(tree, path) == path \in tree.secs \/ path \in DOMAIN tree.leaves

Keys(tree) == tree.secs \cup DOMAIN tree.leaves

\* dict[key] = value for a scalar value: whatever the key held is replaced
SetItem(tree, path, value) ==
    [secs   |-> {s \in tree.secs : ~IsPrefix(path, s)},
     leaves |-> [q \in {r \in DOMAIN tree.leaves : ~IsPrefix(path, r)} \cup {path}
                   |-> IF q = path THEN value ELSE tree.leaves[q]]]

\* {key: tree[key]}: the one top-level key with all it holds
Only(tree, key) ==
    [secs   |-> {s \in tree.secs : s[1] = key},
     leaves |-> [q \in {r \in DOMAIN tree.leaves : r[1] = key} |-> tree.leaves[q]]]

\* bool(params) of a dict, or of None (written EmptyTree)
Truthy(params) == Keys(params) # {}

EnsureOverwrites(config, section) ==
    [secs   |-> {s \in config.secs : ~IsPrefix(section, s)} \cup {section},
     leaves |-> [q \in {r \in DOMAIN config.leaves : ~IsPrefix(section, r)}
                   |-> config.leaves[q]]]

_ensure_config_section(config, section) ==
    IF ~Has(config, section)
    THEN [config EXCEPT !.secs = @ \cup {section}]
    ELSE config

(***************************************************************************)
(* The object's configuration state as one value, and the setters.         *)
(***************************************************************************)
Self ==
    [fr_config |-> fr_config, fp_config |-> fp_config, fp_plugins |-> fp_plugins,
     frames |-> frames, file_path |-> file_path, file_name |-> file_name]

Store(s) ==
    /\ fr_config' = s.fr_config
    /\ fp_config' = s.fp_config
    /\ fp_plugins' = s.fp_plugins
    /\ frames' = s.frames
    /\ file_path' = s.file_path
    /\ file_name' = s.file_name

SetNumFramesTreeOnly(s, n) ==
    LET c1 == _ensure_config_section(s.fp_config, <<"hdf">>)
    IN  [s EXCEPT !.fp_config = SetItem(c1, <<"hdf", "frames">>, n)]

set_num_frames(s, n) ==
    LET c1 == _ensure_config_section(s.fp_config, <<"hdf">>)
    IN  [s EXCEPT !.frames = n,
                  !.fp_config = SetItem(c1, <<"hdf", "frames">>, n)]

set_file_path(s, p) ==
    LET c1 == _ensure_config_section(s.fp_config, <<"hdf">>)
        c2 == _ensure_config_section(c1, <<"hdf", "file">>)
    IN  [s EXCEPT !.file_path = p,
                  !.fp_config = SetItem(c2, <<"hdf", "file", "path">>, p)]

set_file_name(s, f) ==
    LET c1 == _ensure_config_section(s.fp_config, <<"hdf">>)
        c2 == _ensure_config_section(c1, <<"hdf", "file">>)
    IN  [s EXCEPT !.file_name = f,
                  !.fp_config = SetItem(c2, <<"hdf", "file", "name">>, f)]

RdtypeMapSwapped == (1 :> 0) @@ (6 :> 0) @@ (12 :> 2) @@ (24 :> 1)

rdtype_map == (1 :> 0) @@ (6 :> 0) @@ (12 :> 1) @@ (24 :> 2)

\* "{:d}-bit".format(bitdepth)
bitdepth_str(bitdepth) == ToString(bitdepth) \o "-bit"

\* The result and whether rdtype_map[bitdepth] raised KeyError; the two
\* bitdepth strings are written before the lookup.
set_bitdepth(s, bitdepth) ==
    LET r1 == SetItem(_ensure_config_section(s.fr_config, <<"decoder_config">>),
                      <<"decoder_config", "bitdepth">>, bitdepth_str(bitdepth))
        p1 == SetItem(_ensure_config_section(s.fp_config, <<"excalibur">>),
                      <<"excalibur", "bitdepth">>, bitdepth_str(bitdepth))
        p2 == _ensure_config_section(p1, <<"hdf">>)
        p3 == _ensure_config_section(p2, <<"hdf", "dataset">>)
        p4 == _ensure_config_section(p3, <<"hdf", "dataset", "data">>)
    IN  IF bitdepth \in DOMAIN rdtype_map
        THEN [self |-> [s EXCEPT !.fr_config = r1,
                                 !.fp_config = SetItem(p4, <<"hdf", "dataset", "data", "datatype">>,
                                                       rdtype_map[bitdepth])],
              raised |-> FALSE]
        ELSE [self |-> [s EXCEPT !.fr_config = r1, !.fp_config = p1],
              raised |-> TRUE]

SetFileWritingNoReapply(s, enable) ==
    LET c1 == _ensure_config_section(s.fp_config, <<"hdf">>)
    IN  [s EXCEPT !.fp_config = SetItem(c1, <<"hdf", "write">>, enable)]

\* The tree after lines 216-221 of set_file_writing; its hdf subtree is sent.
set_file_writing(s, enable) ==
    LET s1 == set_file_name(s, s.file_name)
        s2 == set_file_path(s1, s1.file_path)
        s3 == set_num_frames(s2, s2.frames)
        c1 == SetItem(s3.fp_config, <<"hdf", "frames">>, s3.frames)
    IN  [s3 EXCEPT !.fp_config = SetItem(c1, <<"hdf", "write">>, enable)]

(***************************************************************************)
(* Configuration documents handed to load_config: what json.load returns,  *)
(* or the fact that it raised JSONDecodeError.                             *)
(***************************************************************************)
\* {"processor_default_config": {"fr_setup": {"x": 1}}}
DocFrSetup ==
    [malformed |-> FALSE,
     config_params |->
        ("processor_default_config" :>
            [secs |-> {<<"fr_setup">>},
             leaves |-> (<<"fr_setup", "x">> :> 1)])]

\* all three sections, with keys beside the ones the setters write
DocFull ==
    [malformed |-> FALSE,
     config_params |->
        ("receiver_default_config" :>
            [secs |-> {<<"decoder_config">>},
             leaves |-> (<<"decoder_config", "enable_packet_logging">> :> FALSE)
                        @@ (<<"max_buffer_mem">> :> 840)])
        @@ ("processor_default_config" :>
            [secs |-> {<<"hdf">>, <<"hdf", "file">>, <<"excalibur">>},
             leaves |-> (<<"hdf", "frames">> :> 3)
                        @@ (<<"hdf", "file", "path">> :> "/old")
                        @@ (<<"hdf", "master">> :> "data")
                        @@ (<<"excalibur", "width">> :> 2048)])
        @@ ("processor_plugins" :>
            << [secs |-> {<<"plugin">>, <<"plugin", "load">>},
                leaves |-> (<<"plugin", "load", "index">> :> "hdf")],
               [secs |-> {<<"plugin">>, <<"plugin", "connect">>},
                leaves |-> (<<"plugin", "connect", "index">> :> "hdf")] >>)]

\* {"processor_plugins": [{"plugin": {"load": {"index": "excalibur"}}}, {}]}
DocPlugins ==
    [malformed |-> FALSE,
     config_params |->
        ("processor_plugins" :>
            << [secs |-> {<<"plugin">>, <<"plugin", "load">>},
                leaves |-> (<<"plugin", "load", "index">> :> "excalibur")],
               EmptyTree >>)]

DocMalformed == [malformed |-> TRUE, config_params |-> EmptyLeaves]

Docs == {DocFrSetup, DocFull, DocPlugins, DocMalformed}

LoadResetsOnError(s, doc) ==
    LET Section(key, old) ==
            IF doc.malformed
            THEN IF key = "processor_plugins" THEN <<>> ELSE EmptyTree
            ELSE IF key \in DOMAIN doc.config_params THEN doc.config_params[key] ELSE old
    IN  [s EXCEPT !.fr_config = Section("receiver_default_config", @),
                  !.fp_config = Section("processor_default_config", @),
                  !.fp_plugins = Section("processor_plugins", @)]

LoadResetsAbsent(s, doc) ==
    LET Section(key, old) ==
            IF doc.malformed
            THEN old
            ELSE IF key \in DOMAIN doc.config_params
                 THEN doc.config_params[key]
                 ELSE IF key = "processor_plugins" THEN <<>> ELSE EmptyTree
    IN  [s EXCEPT !.fr_config = Section("receiver_default_config", @),
                  !.fp_config = Section("processor_default_config", @),
                  !.fp_plugins = Section("processor_plugins", @)]

load_config(s, doc) ==
    IF doc.malformed
    THEN s
    ELSE LET config_params == doc.config_params
             s1 == IF "receiver_default_config" \in DOMAIN config_params
                   THEN [s EXCEPT !.fr_config = config_params["receiver_default_config"]]
                   ELSE s
             s2 == IF "processor_default_config" \in DOMAIN config_params
                   THEN [s1 EXCEPT !.fp_config = config_params["processor_default_config"]]
                   ELSE s1
         IN  IF "processor_plugins" \in DOMAIN config_params
             THEN [s2 EXCEPT !.fp_plugins = config_params["processor_plugins"]]
             ELSE s2

(***************************************************************************)
(* The message id counter, 32 bits wide in two 16 bit limbs.               *)
(***************************************************************************)
Limb == 65536

Id(hi, lo) == [hi |-> hi, lo |-> lo]

\* x + 1, not reduced: hi = Limb stands for 2^32
PlusOne(x) == Id(x.hi + (x.lo + 1) \div Limb, (x.lo + 1) % Limb)

\* x % MESSAGE_ID_MAX, with MESSAGE_ID_MAX = 2**32 = Limb * Limb
ModMax(x) == Id(x.hi % Limb, x.lo)

NextIdNoWrap(msg_id) == PlusOne(msg_id)

NextIdStuck(msg_id) == msg_id

_next_msg_id(msg_id) == ModMax(PlusOne(msg_id))

(***************************************************************************)
(* The control endpoints.  An endpoint holds the queue of the messages     *)
(* that are readable on it.  The peer behind it answers a command within   *)
(* the timeout, after it, or never, and its reply carries the id of the    *)
(* command it answers.                                                     *)
(***************************************************************************)
Outcomes == IF peers = "slow" THEN {"reply", "late", "none"} ELSE {"reply", "none"}

\* the queue of the endpoint when channel.poll returns
AtPoll(queue, id, outcome) == IF outcome = "reply" THEN Append(queue, id) ELSE queue

\* the queue of the endpoint once the peer's late reply is in
AfterPoll(queue, id, outcome) == IF outcome = "late" THEN Append(queue, id) ELSE queue

ChannelCall(call, channel) == [call |-> call, channel |-> channel]

(***************************************************************************)
(* The command dispatcher.                                                 *)
(***************************************************************************)
\* What channel.send is handed; params are attached only when truthy.
IpcMessage(channel, cmd, id, params) ==
    [channel |-> channel, msg_type |-> "cmd", msg_val |-> cmd, id |-> id,
     has_params |-> Truthy(params),
     params |-> IF Truthy(params) THEN params ELSE EmptyTree]

\* lines 282-293 for a command with the given id: one send, one poll and,
\* on POLLIN, one recv of whatever message is first in the queue
Dispatch(channel, cmd, params, outcome, id) ==
    LET queue == AtPoll(inbox[channel], id, outcome)
        pollin == queue # <<>>
    IN  /\ _msg_id' = id
        /\ sent' = Append(sent, IpcMessage(channel, cmd, id, params))
        /\ reply' = pollin
        /\ reply_id' = IF pollin THEN Head(queue) ELSE Id(0, 0)
        /\ inbox' = [inbox EXCEPT ![channel] =
                        AfterPoll(IF pollin THEN Tail(queue) ELSE queue, id, outcome)]
        /\ io' = <<ChannelCall("send", channel), ChannelCall("poll", channel)>>
                 \o (IF pollin THEN <<ChannelCall("recv", channel)>> ELSE <<>>)

SendCmdReusesId(channel, cmd, params, got) ==
    Dispatch(channel, cmd, params, got,
             IF reply \/ sent = <<>> THEN _next_msg_id(_msg_id) ELSE _msg_id)

SendCmdRetries(channel, cmd, params, got) ==
    LET id == _next_msg_id(_msg_id)
        queue == AtPoll(inbox[channel], id, got)
        pollin == queue # <<>>
        m == IpcMessage(channel, cmd, id, params)
    IN  /\ _msg_id' = id
        /\ sent' = IF pollin THEN Append(sent, m) ELSE sent \o <<m, m>>
        /\ reply' = pollin
        /\ reply_id' = IF pollin THEN Head(queue) ELSE Id(0, 0)
        /\ inbox' = [inbox EXCEPT ![channel] =
                        AfterPoll(IF pollin THEN Tail(queue) ELSE queue, id, got)]
        /\ io' = <<ChannelCall("send", channel), ChannelCall("poll", channel)>>
                 \o (IF pollin
                     THEN <<ChannelCall("recv", channel)>>
                     ELSE <<ChannelCall("send", channel), ChannelCall("poll", channel)>>)

\* _send_cmd; got is what the peer does with the command
_send_cmd(channel, cmd, params, got) ==
    Dispatch(channel, cmd, params, got, _next_msg_id(_msg_id))

_send_config_cmd(channel, params, got) == _send_cmd(channel, "configure", params, got)

_send_status_cmd(channel, got) == _send_cmd(channel, "status", EmptyTree, got)

(***************************************************************************)
(* The log.                                                                *)
(***************************************************************************)
Record(level, kind, msg) == [level |-> level, kind |-> kind, msg |-> msg]

\* self.logger.info("Sending ...")
Sending(msg) == Record("info", "sending", msg)

\* if reply is not None: self.logger.info("Got response: {}".format(reply))
GotResponse(replied) ==
    IF replied THEN <<Record("info", "response", "Got response")>> ELSE <<>>

\* the debug records of _ensure_config_section for the sections on paths,
\* in order, that config does not have
RECURSIVE CreatedSections(_, _)
CreatedSections(config, paths) ==
    IF paths = <<>>
    THEN <<>>
    ELSE (IF Has(config, Head(paths))
          THEN <<>>
          ELSE <<Record("debug", "created",
                        "Created " \o Head(paths)[Len(Head(paths))] \o " section in config params")>>)
         \o CreatedSections(config, Tail(paths))

\* lines 72-75 of run
RunPreamble ==
    <<Record("info", "starting", "Odin data client starting up"),
      Record("debug", "identity", "Frame receiver control IPC channel has identity"),
      Record("debug", "identity", "Frame processor control IPC channel has identity")>>

(***************************************************************************)
(* The command line, and run.  args.run says whether the methods are       *)
(* called by run, in its order and when its conditions hold, or by a       *)
(* caller of its own.  An optional argument is the empty set (None) or the *)
(* set of its value.                                                       *)
(***************************************************************************)
NoArgs ==
    [run |-> FALSE, config_file |-> {}, frames |-> {}, bitdepth |-> {},
     file_path |-> {}, file_name |-> {}, config |-> FALSE, start |-> FALSE,
     stop |-> FALSE, status |-> FALSE, getconfig |-> FALSE, version |-> FALSE,
     reset_stats |-> FALSE, shutdown |-> FALSE]

Value(optional) == CHOOSE v \in optional : TRUE

\* if self.args.frames: and if self.args.bitdepth:
TruthyInt(optional) == optional # {} /\ Value(optional) # 0

\* if self.args.file_path: and if self.args.file_name:
TruthyStr(optional) == optional # {} /\ Value(optional) # ""

\* do_request_config_cmd, do_request_version_cmd and do_reset_stats_cmd
DoCmds ==
    [do_request_config_cmd |-> "request_configuration",
     do_request_version_cmd |-> "request_version",
     do_reset_stats_cmd |-> "reset_statistics"]

DoCmdNames ==
    [do_request_config_cmd |-> "configuration request",
     do_request_version_cmd |-> "version request",
     do_reset_stats_cmd |-> "statistics reset"]

\* the if statements of run, lines 77-113, in order
RunPlan ==
    <<[guard |-> args.config_file # {}, name |-> "load_config"],
      [guard |-> TruthyInt(args.frames), name |-> "set_num_frames"],
      [guard |-> TruthyInt(args.bitdepth), name |-> "set_bitdepth"],
      [guard |-> TruthyStr(args.file_path), name |-> "set_file_path"],
      [guard |-> TruthyStr(args.file_name), name |-> "set_file_name"],
      [guard |-> args.config, name |-> "do_config_cmd"],
      [guard |-> args.start \/ args.stop, name |-> "set_file_writing"],
      [guard |-> args.status, name |-> "do_status_cmd"],
      [guard |-> args.getconfig, name |-> "do_request_config_cmd"],
      [guard |-> args.version, name |-> "do_request_version_cmd"],
      [guard |-> args.reset_stats, name |-> "do_reset_stats_cmd"],
      [guard |-> args.shutdown, name |-> "do_shutdown_cmd"]>>

\* the argument run passes to the method
RunArg(name) ==
    CASE name = "load_config" -> Value(args.config_file)
      [] name = "set_num_frames" -> Value(args.frames)
      [] name = "set_bitdepth" -> Value(args.bitdepth)
      [] name = "set_file_path" -> Value(args.file_path)
      [] name = "set_file_name" -> Value(args.file_name)
      [] name = "set_file_writing" -> args.start
      [] name \in DOMAIN DoCmds -> DoCmds[name]
      [] OTHER -> "none"

\* the statements of run, from the one it is at, whose condition holds
Pending == {k \in stage..Len(RunPlan) : RunPlan[k].guard}

NextStage == CHOOSE k \in Pending : \A j \in Pending : k <= j

\* run has nothing left to call
RunDone == args.run /\ pc = "idle" /\ Pending = {}

(***************************************************************************)
(* The state after __init__, and the methods as actions.  A method that    *)
(* sends several commands takes one step per command; pc says where it is. *)
(* logged and io are what the step just taken wrote to the logger and      *)
(* called on the channels.                                                 *)
(***************************************************************************)
NumPolls == 10

ChannelsReversed == <<"processor", "receiver">>

channels == <<"receiver", "processor">>

Constructed(msg_id) ==
    /\ fr_config = EmptyTree
    /\ fp_config = EmptyTree
    /\ fp_plugins = <<>>
    /\ frames = 1
    /\ file_path = "/tmp"
    /\ file_name = "test.hdf5"
    /\ _msg_id = msg_id
    /\ sent = <<>>
    /\ reply = FALSE
    /\ reply_id = Id(0, 0)
    /\ inbox = [c \in {"receiver", "processor"} |-> <<>>]
    /\ io = <<>>
    /\ pc = "idle"
    /\ idx = 0
    /\ op = "__init__"
    /\ arg = "none"
    /\ mark = 0
    /\ ncalls = 0
    /\ stage = 1

\* the methods are called by a caller of its own, the peers being as said
Direct(p) ==
    /\ args = NoArgs
    /\ peers = p
    /\ logged = <<>>

Init == Constructed(Id(0, 0)) /\ Direct("prompt")

\* a caller invokes method name with argument a: run, when it is at the
\* statement that calls it so, or else any caller
Call(name, a) ==
    /\ pc = "idle"
    /\ IF args.run
       THEN /\ Pending # {}
            /\ RunPlan[NextStage].name = name
            /\ a = RunArg(name)
            /\ stage' = NextStage + 1
       ELSE /\ ncalls < MaxCalls
            /\ stage' = stage
    /\ op' = name
    /\ arg' = a
    /\ mark' = Len(sent)
    /\ ncalls' = ncalls + 1
    /\ UNCHANGED <<args, peers>>

Running == UNCHANGED <<op, arg, mark, ncalls, stage, args, peers>>

ConfigUnchanged ==
    UNCHANGED <<fr_config, fp_config, fp_plugins, frames, file_path, file_name>>

NothingSent == UNCHANGED <<_msg_id, sent, reply, reply_id, inbox>> /\ io' = <<>>

LoadConfig ==
    \E doc \in Docs :
        /\ Call("load_config", doc)
        /\ Store(load_config(Self, doc))
        /\ logged' = <<Record("debug", "parsing", "Parsing default configuration from file")>>
                     \o (IF doc.malformed
                         THEN <<Record("error", "parse_failed",
                                       "Failed to parse configuration file")>>
                         ELSE <<>>)
        /\ NothingSent
        /\ UNCHANGED <<pc, idx>>

SetNumFrames ==
    \E n \in FrameVals :
        /\ Call("set_num_frames", n)
        /\ Store(set_num_frames(Self, n))
        /\ logged' = CreatedSections(fp_config, << <<"hdf">> >>)
        /\ NothingSent
        /\ UNCHANGED <<pc, idx>>

SetFilePath ==
    \E p \in PathVals :
        /\ Call("set_file_path", p)
        /\ Store(set_file_path(Self, p))
        /\ logged' = CreatedSections(fp_config, << <<"hdf">>, <<"hdf", "file">> >>)
        /\ NothingSent
        /\ UNCHANGED <<pc, idx>>

SetFileName ==
    \E f \in NameVals :
        /\ Call("set_file_name", f)
        /\ Store(set_file_name(Self, f))
        /\ logged' = CreatedSections(fp_config, << <<"hdf">>, <<"hdf", "file">> >>)
        /\ NothingSent
        /\ UNCHANGED <<pc, idx>>

\* a KeyError leaves the method, and the caller, with the trees as written
SetBitdepth ==
    \E b \in BitVals :
        /\ Call("set_bitdepth", b)
        /\ Store(set_bitdepth(Self, b).self)
        /\ pc' = IF set_bitdepth(Self, b).raised THEN "raised" ELSE "idle"
        /\ logged' = CreatedSections(fr_config, << <<"decoder_config">> >>)
                     \o CreatedSections(fp_config, << <<"excalibur">> >>)
                     \o (IF set_bitdepth(Self, b).raised
                         THEN <<>>
                         ELSE CreatedSections(fp_config,
                                  << <<"hdf">>, <<"hdf", "dataset">>,
                                     <<"hdf", "dataset", "data">> >>))
        /\ NothingSent
        /\ UNCHANGED idx

SetFileWriting ==
    \E enable \in BOOLEAN, got \in Outcomes :
        /\ Call("set_file_writing", enable)
        /\ Store(set_file_writing(Self, enable))
        /\ _send_config_cmd("processor", Only(set_file_writing(Self, enable).fp_config, "hdf"), got)
        /\ logged' = CreatedSections(fp_config, << <<"hdf">>, <<"hdf", "file">> >>)
                     \o <<Sending("Sending file writing "
                                  \o (IF enable THEN "enable" ELSE "disable")
                                  \o " command to frame processor")>>
        /\ UNCHANGED <<pc, idx>>

AfterFrConfigSkips == "config_status"

\* where do_config_cmd goes after step (a)
AfterFrConfig ==
    IF Has(fp_config, <<"fr_setup">>) THEN "config_fr_setup" ELSE "config_status"

\* where do_config_cmd goes after the last status poll
AfterPolls ==
    IF Len(fp_plugins) # 0 THEN "config_plugins" ELSE "config_fp"

\* the for loop of lines 197-201 after i iterations
PollLoop(i) ==
    /\ pc' = IF i < NumPolls THEN "config_status" ELSE AfterPolls
    /\ idx' = IF i < NumPolls THEN i ELSE 0

DoConfigCmd ==
    \E got \in Outcomes :
        /\ Call("do_config_cmd", "none")
        /\ _send_config_cmd("receiver", fr_config, got)
        /\ logged' = <<Sending("Sending configuration command to frame receiver")>>
        /\ pc' = AfterFrConfig
        /\ idx' = 0
        /\ ConfigUnchanged

ConfigFrSetup ==
    \E got \in Outcomes :
        /\ pc = "config_fr_setup"
        /\ _send_config_cmd("processor", Only(fp_config, "fr_setup"), got)
        /\ logged' = <<Sending("Sending receiver plugin configuration command to frame processor")>>
        /\ pc' = "config_status"
        /\ idx' = 0
        /\ ConfigUnchanged
        /\ Running

PollAlwaysSleeps ==
    \E got \in Outcomes :
        /\ pc = "config_status"
        /\ _send_status_cmd("processor", got)
        /\ logged' = <<>>
        /\ pc' = "config_sleep"
        /\ idx' = idx
        /\ ConfigUnchanged
        /\ Running

PollStopsOnTimeout ==
    \E got \in Outcomes :
        /\ pc = "config_status"
        /\ _send_status_cmd("processor", got)
        /\ logged' = <<>>
        /\ IF reply'
           THEN pc' = "config_sleep" /\ idx' = idx
           ELSE pc' = "idle" /\ idx' = 0
        /\ ConfigUnchanged
        /\ Running

\* one status poll; time.sleep follows only when the poll returned a reply
ConfigStatus ==
    \E got \in Outcomes :
        /\ pc = "config_status"
        /\ _send_status_cmd("processor", got)
        /\ logged' = <<>>
        /\ IF reply'
           THEN pc' = "config_sleep" /\ idx' = idx
           ELSE PollLoop(idx + 1)
        /\ ConfigUnchanged
        /\ Running

SleepThenBreak ==
    /\ pc = "config_sleep"
    /\ PollLoop(NumPolls)
    /\ logged' = <<>>
    /\ NothingSent
    /\ ConfigUnchanged
    /\ Running

\* time.sleep(0.2)
ConfigSleep ==
    /\ pc = "config_sleep"
    /\ PollLoop(idx + 1)
    /\ logged' = <<>>
    /\ NothingSent
    /\ ConfigUnchanged
    /\ Running

ConfigPlugins ==
    \E got \in Outcomes :
        /\ pc = "config_plugins"
        /\ _send_config_cmd("processor", fp_plugins[idx + 1], got)
        /\ logged' = IF idx = 0
                     THEN <<Sending("Sending " \o ToString(Len(fp_plugins))
                                    \o " plugin chain configuration commands to frame processor")>>
                     ELSE <<>>
        /\ pc' = IF idx + 1 < Len(fp_plugins) THEN "config_plugins" ELSE "config_fp"
        /\ idx' = IF idx + 1 < Len(fp_plugins) THEN idx + 1 ELSE 0
        /\ ConfigUnchanged
        /\ Running

ConfigFp ==
    \E got \in Outcomes :
        /\ pc = "config_fp"
        /\ _send_config_cmd("processor", fp_config, got)
        /\ logged' = <<Sending("Sending plugin parameter configuration command to frame processor")>>
        /\ pc' = "idle"
        /\ idx' = 0
        /\ ConfigUnchanged
        /\ Running

DoStatusCmd ==
    \E got \in Outcomes :
        /\ Call("do_status_cmd", "none")
        /\ _send_status_cmd(channels[1], got)
        /\ logged' = <<Sending("Sending status request to frame " \o channels[1])>>
                     \o GotResponse(reply')
        /\ pc' = "status"
        /\ idx' = 1
        /\ ConfigUnchanged

StatusLoop ==
    \E got \in Outcomes :
        /\ pc = "status"
        /\ _send_status_cmd(channels[idx + 1], got)
        /\ logged' = <<Sending("Sending status request to frame " \o channels[idx + 1])>>
                     \o GotResponse(reply')
        /\ pc' = IF idx + 1 < Len(channels) THEN "status" ELSE "idle"
        /\ idx' = IF idx + 1 < Len(channels) THEN idx + 1 ELSE 0
        /\ ConfigUnchanged
        /\ Running

DoCmd ==
    \E name \in DOMAIN DoCmds, got \in Outcomes :
        /\ Call(name, DoCmds[name])
        /\ _send_cmd(channels[1], DoCmds[name], EmptyTree, got)
        /\ logged' = <<Sending("Sending " \o DoCmdNames[name] \o " command to frame "
                               \o channels[1])>>
                     \o GotResponse(reply')
        /\ pc' = "do_cmd"
        /\ idx' = 1
        /\ ConfigUnchanged

DoCmdLoop ==
    \E got \in Outcomes :
        /\ pc = "do_cmd"
        /\ _send_cmd(channels[idx + 1], arg, EmptyTree, got)
        /\ logged' = <<Sending("Sending " \o DoCmdNames[op] \o " command to frame "
                               \o channels[idx + 1])>>
                     \o GotResponse(reply')
        /\ pc' = IF idx + 1 < Len(channels) THEN "do_cmd" ELSE "idle"
        /\ idx' = IF idx + 1 < Len(channels) THEN idx + 1 ELSE 0
        /\ ConfigUnchanged
        /\ Running

\* {"shutdown": True}
ShutdownParams == [secs |-> {}, leaves |-> (<<"shutdown">> :> TRUE)]

ShutdownStopsOnTimeout ==
    \E got \in Outcomes :
        /\ Call("do_shutdown_cmd", "none")
        /\ _send_cmd("receiver", "shutdown", EmptyTree, got)
        /\ logged' = <<Sending("Sending shutdown command to frame receiver")>>
                     \o GotResponse(reply')
        /\ pc' = IF reply' THEN "shutdown_fp" ELSE "idle"
        /\ UNCHANGED idx
        /\ ConfigUnchanged

DoShutdownCmd ==
    \E got \in Outcomes :
        /\ Call("do_shutdown_cmd", "none")
        /\ _send_cmd("receiver", "shutdown", EmptyTree, got)
        /\ logged' = <<Sending("Sending shutdown command to frame receiver")>>
                     \o GotResponse(reply')
        /\ pc' = "shutdown_fp"
        /\ UNCHANGED idx
        /\ ConfigUnchanged

ShutdownFp ==
    \E got \in Outcomes :
        /\ pc = "shutdown_fp"
        /\ _send_config_cmd("processor", ShutdownParams, got)
        /\ logged' = <<Sending("Sending shutdown config request to frame processor")>>
                     \o GotResponse(reply')
        /\ pc' = "idle"
        /\ UNCHANGED idx
        /\ ConfigUnchanged
        /\ Running

Next ==
    \/ LoadConfig
    \/ SetNumFrames
    \/ SetFilePath
    \/ SetFileName
    \/ SetBitdepth
    \/ SetFileWriting
    \/ DoConfigCmd
    \/ ConfigFrSetup
    \/ ConfigStatus
    \/ ConfigSleep
    \/ ConfigPlugins
    \/ ConfigFp
    \/ DoStatusCmd
    \/ StatusLoop
    \/ DoCmd
    \/ DoCmdLoop
    \/ DoShutdownCmd
    \/ ShutdownFp

Spec == Init /\ [][Next]_vars

\* the counter a few calls before it wraps, and before its low limb carries
StartIds == {Id(0, 0), Id(0, Limb - 2), Id(Limb - 1, Limb - 3)}

InitWrap == \E id0 \in StartIds : Constructed(id0) /\ Direct("prompt")

SpecWrap == InitWrap /\ [][Next]_vars

\* peers that may answer after the timeout
InitSlow == Constructed(Id(0, 0)) /\ Direct("slow")

SpecSlow == InitSlow /\ [][Next]_vars

\* how many options a command line gives
Given(a) ==
    Cardinality({f \in {"config_file", "frames", "bitdepth", "file_path", "file_name"} :
                     a[f] # {}})
    + Cardinality({f \in {"config", "start", "stop", "status", "getconfig", "version",
                          "reset_stats", "shutdown"} : a[f]})

\* the command lines run is started with; --start and --stop exclude each
\* other, and --bitdepth takes one of its choices
RunArgs ==
    {a \in [run : {TRUE},
            config_file : {{}, {DocFull}, {DocFrSetup}, {DocMalformed}},
            frames : {{}, {0}, {5}},
            bitdepth : {{}, {12}},
            file_path : {{}, {"/data"}},
            file_name : {{}, {"run.h5"}},
            config : BOOLEAN, start : BOOLEAN, stop : BOOLEAN,
            status : BOOLEAN, getconfig : BOOLEAN, version : BOOLEAN,
            reset_stats : BOOLEAN, shutdown : BOOLEAN] :
        ~(a.start /\ a.stop) /\ Given(a) <= MaxOptions}

\* run has logged its first lines and is at its first if statement
InitRun ==
    /\ Constructed(Id(0, 0))
    /\ args \in RunArgs
    /\ peers = "prompt"
    /\ logged = RunPreamble

SpecRun == InitRun /\ [][Next]_vars

(***************************************************************************)
(* Properties of do_config_cmd.                                            *)
(***************************************************************************)
\* the commands sent by the method called last
SentByCall == SubSeq(sent, mark + 1, Len(sent))

\* a command without its id
Command(channel, cmd, has_params, params) ==
    [channel |-> channel, msg_val |-> cmd, has_params |-> has_params, params |-> params]

CommandOf(m) == Command(m.channel, m.msg_val, m.has_params, m.params)

CommandsByCall == [k \in 1..Len(SentByCall) |-> CommandOf(SentByCall[k])]

\* a tree travels as params unless it is empty
Carrying(tree) == IF Keys(tree) = {} THEN <<FALSE, EmptyTree>> ELSE <<TRUE, tree>>

Configure(channel, tree) ==
    Command(channel, "configure", Carrying(tree)[1], Carrying(tree)[2])

\* steps (a) to (e) for the trees and the plugin chain as they are
ConfigScript ==
    <<Configure("receiver", fr_config)>>
    \o (IF <<"fr_setup">> \in Keys(fp_config)
        THEN <<Configure("processor", Only(fp_config, "fr_setup"))>>
        ELSE <<>>)
    \o [k \in 1..NumPolls |-> Command("processor", "status", FALSE, EmptyTree)]
    \o [k \in 1..Len(fp_plugins) |-> Configure("processor", fp_plugins[k])]
    \o <<Configure("processor", fp_config)>>

InConfig == op = "do_config_cmd" /\ pc # "idle"

ConfigDone == op = "do_config_cmd" /\ pc = "idle"

\* C1: do_config_cmd sends (a) the receiver tree to the receiver, (b) the
\* optional fr_setup configure, (c) the status polls, (d) one configure per
\* plugin fragment in list order, (e) the full processor tree, in this order;
\* whatever replies arrive, what has been sent is always a prefix of that
\* script, the method can always take its next step, and it returns only
\* when the whole script, step (e) included, has been sent.
ConfigCmdOrder ==
    /\ InConfig =>
        /\ Len(CommandsByCall) < Len(ConfigScript)
        /\ CommandsByCall = SubSeq(ConfigScript, 1, Len(CommandsByCall))
        /\ ENABLED Next
    /\ ConfigDone => CommandsByCall = ConfigScript

\* C1 witness: do_config_cmd returned after sending a plugin chain, with
\* the fr_setup step and with the last command unanswered.
ConfigCmdOrderWitness ==
    /\ ConfigDone
    /\ ~reply
    /\ Len(fp_plugins) = 2
    /\ Len(SentByCall) = NumPolls + 4 \/ Len(SentByCall) = NumPolls + 5

\* positions of the status commands among the commands of the call
StatusPositions ==
    {k \in 1..Len(SentByCall) :
        SentByCall[k].msg_val = "status" /\ SentByCall[k].channel = "processor"}

FirstPoll == IF <<"fr_setup">> \in Keys(fp_config) THEN 3 ELSE 2

\* C2: every do_config_cmd sends exactly 10 status commands to the
\* processor, one after the other between step (b) and step (d): never more
\* than 10, and all 10 once the polling loop is left, whatever the outcome
\* of each poll.
ExactlyTenPolls ==
    op = "do_config_cmd" =>
        /\ StatusPositions =
               {k \in FirstPoll..(FirstPoll + NumPolls - 1) : k <= Len(SentByCall)}
        /\ pc \in {"config_plugins", "config_fp", "idle"} =>
               Cardinality(StatusPositions) = NumPolls
        /\ pc = "config_status" => Cardinality(StatusPositions) = idx /\ idx < NumPolls
        /\ pc = "config_sleep" => Cardinality(StatusPositions) = idx + 1

\* C2 witness: the loop was left after a tenth poll that timed out.
ExactlyTenPollsWitness ==
    /\ op = "do_config_cmd"
    /\ pc \in {"config_plugins", "config_fp"}
    /\ Len(SentByCall) = FirstPoll + NumPolls - 1
    /\ ~reply

FrSetupStep ==
    (op = "do_config_cmd" /\ Len(SentByCall) >= 2) =>
        LET first == SentByCall[1]
            second == SentByCall[2]
        IN  /\ first.channel = "receiver" /\ first.msg_val = "configure"
            /\ IF <<"fr_setup">> \in Keys(fp_config)
               THEN /\ second.channel = "processor"
                    /\ second.msg_val = "configure"
                    /\ second.has_params
                    /\ \A p \in Keys(second.params) : p[1] = "fr_setup"
                    /\ \A p \in Keys(fp_config) :
                          p[1] = "fr_setup" =>
                              /\ p \in fp_config.secs <=> p \in second.params.secs
                              /\ p \in DOMAIN fp_config.leaves =>
                                    /\ p \in DOMAIN second.params.leaves
                                    /\ second.params.leaves[p] = fp_config.leaves[p]
                    /\ Len(SentByCall) >= 3 => SentByCall[3].msg_val = "status"
               ELSE /\ second.channel = "processor"
                    /\ second.msg_val = "status"
                    /\ \A k \in 1..Len(SentByCall) :
                          <<"fr_setup">> \notin Keys(SentByCall[k].params)

\* C4 witness: the fr_setup configure was sent and a status poll followed.
FrSetupStepWitness ==
    /\ op = "do_config_cmd"
    /\ <<"fr_setup", "x">> \in DOMAIN fp_config.leaves
    /\ Len(SentByCall) >= 3
    /\ SentByCall[2].params.leaves[<<"fr_setup", "x">>] = 1

(***************************************************************************)
(* Properties of the message ids.                                          *)
(***************************************************************************)
IdInRange(x) == x.hi \in 0..(Limb - 1) /\ x.lo \in 0..(Limb - 1)

\* new = (old + 1) mod 2^32, for old in range
IdFollows(old, new) ==
    IF old = Id(Limb - 1, Limb - 1)
    THEN new = Id(0, 0)
    ELSE (new.hi - old.hi) * Limb + (new.lo - old.lo) = 1

\* C5: every command takes the id (counter + 1) mod 2^32, which becomes the
\* counter: from counter 0 the id is 1, from 2^32 - 1 it is 0, the counter
\* changes in no other step, and counter and ids stay in 0 .. 2^32 - 1.
IdGenerator ==
    [][/\ Len(sent') = Len(sent) + 1 =>
            /\ IdFollows(_msg_id, sent'[Len(sent')].id)
            /\ _msg_id' = sent'[Len(sent')].id
            /\ IdInRange(_msg_id')
            /\ _msg_id = Id(0, 0) => _msg_id' = Id(0, 1)
       /\ Len(sent') # Len(sent) + 1 => _msg_id' = _msg_id /\ sent' = sent]_vars

\* C5 witness: the id after 2^32 - 1 was 0 and the id after that 1.
IdGeneratorWitness ==
    /\ Len(sent) >= 3
    /\ sent[Len(sent) - 2].id = Id(Limb - 1, Limb - 1)
    /\ sent[Len(sent) - 1].id = Id(0, 0)
    /\ _msg_id = Id(0, 1)

\* C6: consecutive commands, on whichever endpoints and whether or not the
\* earlier one was answered, carry ids that differ by 1 modulo 2^32, the
\* counter is the id of the latest command, and no two commands sent carry
\* the same id.
ConsecutiveIds ==
    /\ \A k \in 1..(Len(sent) - 1) : IdFollows(sent[k].id, sent[k + 1].id)
    /\ \A j, k \in 1..Len(sent) : sent[j].id = sent[k].id => j = k
    /\ sent # <<>> => _msg_id = sent[Len(sent)].id

\* C6 witness: after a command that timed out, the next command went to the
\* other endpoint with the id wrapped to 0.
ConsecutiveIdsWitness ==
    /\ pc = "idle"
    /\ op = "do_status_cmd"
    /\ Len(sent) >= 3
    /\ sent[Len(sent)].id = Id(0, 0)
    /\ sent[Len(sent)].channel = "processor"
    /\ sent[Len(sent) - 1].channel = "receiver"
    /\ ~reply

(***************************************************************************)
(* Properties of the setters and of the trees.                             *)
(***************************************************************************)
TopKeys(tree) == {p[1] : p \in Keys(tree)}

LeafIs(tree, path, value) ==
    path \in DOMAIN tree.leaves /\ tree.leaves[path] = value

\* C7: whatever calls came before, set_file_writing(enabled) sends the
\* processor exactly one command, a configure whose params hold the single
\* top-level key hdf, with hdf.frames, hdf.file.path and hdf.file.name equal
\* to the session's frame count, file path and file name and hdf.write equal
\* to enabled.
FileWritingPayload ==
    op = "set_file_writing" =>
        /\ Len(SentByCall) = 1
        /\ pc = "idle"
        /\ LET m == SentByCall[1]
           IN  /\ m.channel = "processor"
               /\ m.msg_val = "configure"
               /\ m.has_params
               /\ TopKeys(m.params) = {"hdf"}
               /\ LeafIs(m.params, <<"hdf", "frames">>, frames)
               /\ LeafIs(m.params, <<"hdf", "file", "path">>, file_path)
               /\ LeafIs(m.params, <<"hdf", "file", "name">>, file_name)
               /\ LeafIs(m.params, <<"hdf", "write">>, arg)

\* C7 witness: file writing was started after defaults with other top-level
\* keys and other hdf leaves were loaded and the frame count was overridden.
FileWritingPayloadWitness ==
    /\ op = "set_file_writing"
    /\ arg = TRUE
    /\ frames = 5
    /\ <<"excalibur">> \in fp_config.secs
    /\ LeafIs(sent[Len(sent)].params, <<"hdf", "master">>, "data")

FramesProjected ==
    <<"hdf", "frames">> \in Keys(fp_config) => LeafIs(fp_config, <<"hdf", "frames">>, frames)

PathProjected ==
    <<"hdf", "file", "path">> \in Keys(fp_config) =>
        LeafIs(fp_config, <<"hdf", "file", "path">>, file_path)

NameProjected ==
    <<"hdf", "file", "name">> \in Keys(fp_config) =>
        LeafIs(fp_config, <<"hdf", "file", "name">>, file_name)

\* C8 as claimed: in every reachable state each of the leaves hdf.frames,
\* hdf.file.path and hdf.file.name that the processor tree holds equals the
\* session's frame count, file path and file name.
TreeProjectsSession == FramesProjected /\ PathProjected /\ NameProjected

Called(name) == ncalls' = ncalls + 1 /\ op' = name

\* C8: the three leaves equal the session fields after construction; each of
\* set_num_frames, set_file_path and set_file_name leaves its own leaf equal
\* to its session field, and set_file_writing all three; and the only step
\* after which a leaf that agreed with the session differs from it is a
\* load_config that replaces the processor tree.
ProjectionKept ==
    /\ (ncalls = 0 => TreeProjectsSession)
    /\ [][/\ Called("set_num_frames") => LeafIs(fp_config', <<"hdf", "frames">>, frames')
          /\ Called("set_file_path") => LeafIs(fp_config', <<"hdf", "file", "path">>, file_path')
          /\ Called("set_file_name") => LeafIs(fp_config', <<"hdf", "file", "name">>, file_name')
          /\ Called("set_file_writing") =>
                /\ LeafIs(fp_config', <<"hdf", "frames">>, frames')
                /\ LeafIs(fp_config', <<"hdf", "file", "path">>, file_path')
                /\ LeafIs(fp_config', <<"hdf", "file", "name">>, file_name')
          /\ (TreeProjectsSession /\ ~TreeProjectsSession') =>
                /\ Called("load_config")
                /\ ~arg'.malformed
                /\ "processor_default_config" \in DOMAIN arg'.config_params]_vars

\* C8 witness: loaded defaults disagreed with the session and a later
\* set_file_writing made the leaves agree again.
ProjectionKeptWitness ==
    /\ op = "set_file_writing"
    /\ LeafIs(fp_config, <<"hdf", "master">>, "data")
    /\ LeafIs(fp_config, <<"hdf", "frames">>, 1)
    /\ LeafIs(fp_config, <<"hdf", "file", "path">>, "/tmp")
    /\ TreeProjectsSession

\* the leaves each setter is defined to write, per tree
Written ==
    [set_num_frames |-> [fr |-> {}, fp |-> {<<"hdf", "frames">>}],
     set_file_path |-> [fr |-> {}, fp |-> {<<"hdf", "file", "path">>}],
     set_file_name |-> [fr |-> {}, fp |-> {<<"hdf", "file", "name">>}],
     set_bitdepth |-> [fr |-> {<<"decoder_config", "bitdepth">>},
                       fp |-> {<<"excalibur", "bitdepth">>,
                               <<"hdf", "dataset", "data", "datatype">>}],
     set_file_writing |-> [fr |-> {},
                           fp |-> {<<"hdf", "file", "name">>, <<"hdf", "file", "path">>,
                                   <<"hdf", "frames">>, <<"hdf", "write">>}]]

\* every key of the tree lies inside sections
Sectioned(tree) ==
    \A p \in Keys(tree) : \A n \in 1..(Len(p) - 1) : SubSeq(p, 1, n) \in tree.secs

\* from tree old to tree new nothing but the leaves in written changed, and
\* nothing was added but them and the sections on the way to them
OnlyWrote(old, new, written) ==
    /\ \A p \in old.secs : p \in new.secs
    /\ \A p \in DOMAIN old.leaves :
          /\ p \in DOMAIN new.leaves
          /\ p \notin written => new.leaves[p] = old.leaves[p]
    /\ \A p \in written : p \in DOMAIN new.leaves
    /\ \A p \in Keys(new) \ Keys(old) : \E w \in written : IsPrefix(p, w)
    /\ Sectioned(new)

\* C9: a setter call that returns leaves in both trees every section that
\* was there, with every key it held, and every leaf other than the leaves
\* the setter writes, with its value; it adds only those leaves and the
\* sections on the way to them, which are all there when it returns; and
\* _ensure_config_section returns a tree with the key present unchanged.
SettersKeepSiblings ==
    [][(ncalls' = ncalls + 1 /\ op' \in DOMAIN Written /\ pc' # "raised") =>
          /\ OnlyWrote(fr_config, fr_config', Written[op'].fr)
          /\ OnlyWrote(fp_config, fp_config', Written[op'].fp)
          /\ fp_plugins' = fp_plugins
          /\ \A p \in Keys(fp_config) : _ensure_config_section(fp_config, p) = fp_config
          /\ \A p \in Keys(fr_config) : _ensure_config_section(fr_config, p) = fr_config]_vars

\* C9 witness: set_file_path replaced hdf.file.path in a loaded tree whose
\* other keys, in hdf and beside it, are still there.
SettersKeepSiblingsWitness ==
    /\ op = "set_file_path"
    /\ LeafIs(fp_config, <<"hdf", "file", "path">>, "/data")
    /\ LeafIs(fp_config, <<"hdf", "master">>, "data")
    /\ LeafIs(fp_config, <<"hdf", "frames">>, 3)
    /\ LeafIs(fp_config, <<"excalibur", "width">>, 2048)

\* the bitdepth strings and dataset type codes of the claim
BitdepthTable ==
    (1 :> <<"1-bit", 0>>) @@ (6 :> <<"6-bit", 0>>)
    @@ (12 :> <<"12-bit", 1>>) @@ (24 :> <<"24-bit", 2>>)

\* C10: set_bitdepth(b) with b one of 1, 6, 12, 24 returns with "<b>-bit" in
\* receiver decoder_config.bitdepth and processor excalibur.bitdepth and
\* with the code 0, 0, 1, 2 in processor hdf.dataset.data.datatype; with any
\* other b it raises an error.
BitdepthMapping ==
    op = "set_bitdepth" =>
        IF arg \in DOMAIN BitdepthTable
        THEN /\ pc = "idle"
             /\ LeafIs(fr_config, <<"decoder_config", "bitdepth">>, BitdepthTable[arg][1])
             /\ LeafIs(fp_config, <<"excalibur", "bitdepth">>, BitdepthTable[arg][1])
             /\ LeafIs(fp_config, <<"hdf", "dataset", "data", "datatype">>, BitdepthTable[arg][2])
        ELSE pc = "raised"

\* C10 witness: set_bitdepth(12) returned with "12-bit" and datatype 1.
BitdepthMappingWitness ==
    /\ op = "set_bitdepth"
    /\ arg = 12
    /\ pc = "idle"
    /\ LeafIs(fp_config, <<"excalibur", "bitdepth">>, "12-bit")
    /\ LeafIs(fp_config, <<"hdf", "dataset", "data", "datatype">>, 1)

(***************************************************************************)
(* Properties of load_config.                                              *)
(***************************************************************************)
LoggedAt(level) == \E k \in DOMAIN logged : logged[k].level = level

\* C11: a load_config of a malformed document leaves the receiver tree, the
\* processor tree and the plugin chain as they were, writes an error record
\* to the log, and returns to its caller without an exception.
MalformedLoadHarmless ==
    [][(Called("load_config") /\ arg'.malformed) =>
          /\ UNCHANGED <<fr_config, fp_config, fp_plugins>>
          /\ LoggedAt("error")'
          /\ pc' = "idle"]_vars

\* C11 witness: a malformed document was loaded over loaded defaults, which
\* are still there, and the failure is in the log.
MalformedLoadHarmlessWitness ==
    /\ op = "load_config"
    /\ arg = DocMalformed
    /\ fr_config = DocFull.config_params["receiver_default_config"]
    /\ fp_config = DocFull.config_params["processor_default_config"]
    /\ fp_plugins = DocFull.config_params["processor_plugins"]
    /\ LoggedAt("error")
    /\ pc = "idle"

(***************************************************************************)
(* Properties of the dispatcher and of the operations that report replies. *)
(***************************************************************************)
\* a step that sent a command
Sends == Len(sent') = Len(sent) + 1

\* the records a step wrote once its _send_cmd had returned: all but the
\* "Sending ..." line and the section lines, which precede the send
LoggedAfterSend(log) == {k \in DOMAIN log : log[k].kind \notin {"sending", "created"}}

\* C12: every send that ends with no reply is followed by a log record of
\* the operation that sent it.
TimeoutsLogged ==
    [][(Sends /\ ~reply') => LoggedAfterSend(logged') # {}]_vars

(***************************************************************************)
(* Properties of do_shutdown_cmd and of the operations on both endpoints.  *)
(***************************************************************************)
ShutdownScript ==
    <<Command("receiver", "shutdown", FALSE, EmptyTree),
      Command("processor", "configure", TRUE, ShutdownParams)>>

\* C13: do_shutdown_cmd sends one shutdown command to the receiver and then
\* one configure command with params {shutdown: true} to the processor and
\* nothing else; after the receiver send, answered or not, the processor
\* send is the step it can take, and it returns only with both sent.
ShutdownOnce ==
    op = "do_shutdown_cmd" =>
        /\ pc \in {"shutdown_fp", "idle"}
        /\ pc = "shutdown_fp" =>
              /\ CommandsByCall = SubSeq(ShutdownScript, 1, 1)
              /\ ENABLED ShutdownFp
        /\ pc = "idle" => CommandsByCall = ShutdownScript

\* C13 witness: the receiver did not answer the shutdown command, and
\* do_shutdown_cmd is about to send to the processor.
ShutdownOnceWitness ==
    /\ op = "do_shutdown_cmd"
    /\ pc = "shutdown_fp"
    /\ ~reply
    /\ Len(SentByCall) = 1
    /\ ENABLED ShutdownFp

\* the command name each operation on both endpoints sends
FixedName == ("do_status_cmd" :> "status") @@ DoCmds

BothScript(cmd) ==
    <<Command("receiver", cmd, FALSE, EmptyTree),
      Command("processor", cmd, FALSE, EmptyTree)>>

\* C14: each of do_status_cmd, do_request_config_cmd, do_request_version_cmd
\* and do_reset_stats_cmd sends its command name, without params, once to
\* the receiver and then once to the processor and nothing else; after the
\* receiver send, answered or not, the processor send is the step it can
\* take, and it returns only with both sent.
BothEndpointsOnce ==
    op \in DOMAIN FixedName =>
        /\ pc \in {"status", "do_cmd", "idle"}
        /\ pc # "idle" =>
              /\ CommandsByCall = SubSeq(BothScript(FixedName[op]), 1, 1)
              /\ ENABLED (StatusLoop \/ DoCmdLoop)
        /\ pc = "idle" => CommandsByCall = BothScript(FixedName[op])

\* C14 witness: the receiver did not answer reset_statistics, and
\* do_reset_stats_cmd is about to send it to the processor.
BothEndpointsOnceWitness ==
    /\ op = "do_reset_stats_cmd"
    /\ pc = "do_cmd"
    /\ ~reply
    /\ CommandsByCall = <<Command("receiver", "reset_statistics", FALSE, EmptyTree)>>
    /\ ENABLED DoCmdLoop

(***************************************************************************)
(* Properties of run.                                                      *)
(***************************************************************************)
\* whether the command line asks for the operation of each statement of run
Requested ==
    <<args.config_file # {}, args.frames # {}, args.bitdepth # {},
      args.file_path # {}, args.file_name # {}, args.config,
      args.start \/ args.stop, args.status, args.getconfig, args.version,
      args.reset_stats, args.shutdown>>

\* the requested operations from the statement run is at
Ahead == {k \in stage..Len(RunPlan) : Requested[k]}

FirstAhead == CHOOSE k \in Ahead : \A j \in Ahead : k <= j

\* C15: in run every operation begun is the first requested operation not
\* yet passed, called with the argument given for it, so the requested
\* operations execute in the order of the statements and none is left out;
\* every command is sent by a requested operation; and after every step,
\* whatever the reply, run either has a next step or has nothing requested
\* left to execute.
RunOrder ==
    [][args.run =>
          /\ ncalls' = ncalls + 1 =>
                /\ Ahead # {}
                /\ op' = RunPlan[FirstAhead].name
                /\ arg' = RunArg(op')
          /\ Sends => \E k \in 1..Len(RunPlan) : Requested[k] /\ RunPlan[k].name = op'
          /\ (ENABLED Next \/ (pc = "idle" /\ Ahead = {}))']_vars

\* run came to its end with all it was asked for executed
RunComplete == RunDone /\ Ahead = {}

(***************************************************************************)
(* Properties of _send_cmd.                                                *)
(***************************************************************************)
\* the endpoint of the command just sent, and the other one
Endpoint == sent[Len(sent)].channel

Exchange(channel, received) ==
    <<ChannelCall("send", channel), ChannelCall("poll", channel)>>
    \o (IF received THEN <<ChannelCall("recv", channel)>> ELSE <<>>)

\* C16: a step without a send calls no channel; a step with one appends one
\* message to what was sent, and its channel calls are one send and one poll
\* on the endpoint of that message, followed by one recv on it exactly when
\* a reply is returned; at most one message leaves the queue of that
\* endpoint, the queue of the other endpoint is as it was, and with no
\* reply the caller goes on without an exception.
OneExchange ==
    [][IF sent' = sent
       THEN io' = <<>> /\ inbox' = inbox
       ELSE /\ \E m \in {sent'[Len(sent')]} : sent' = Append(sent, m)
            /\ io' = Exchange(Endpoint', reply')
            /\ Len(inbox'[Endpoint']) >= Len(inbox[Endpoint']) - 1
            /\ \A c \in DOMAIN inbox : c # Endpoint' => inbox'[c] = inbox[c]
            /\ pc' # "raised"]_vars

\* C16 witness: a command to the processor got no reply while a late reply
\* was waiting on the receiver endpoint, which was not read.
OneExchangeWitness ==
    /\ sent # <<>>
    /\ Endpoint = "processor"
    /\ ~reply
    /\ io = Exchange("processor", FALSE)
    /\ inbox["receiver"] # <<>>
    /\ inbox["processor"] = <<>>

\* C17: the reply the latest _send_cmd returned carries the id of the
\* command that call sent.
ReplyMatchesCommand ==
    (sent # <<>> /\ reply) => reply_id = sent[Len(sent)].id

(***************************************************************************)
(* Further properties of the setters, of load_config and of run.           *)
(***************************************************************************)
\* C18: a set_bitdepth that raises leaves the receiver tree and the
\* processor tree as they were before the call.
RejectedBitdepthWritesNothing ==
    [][(Called("set_bitdepth") /\ pc' = "raised") =>
          UNCHANGED <<fr_config, fp_config>>]_vars

\* the value load_config leaves where old was, for the section named key
SectionOr(config_params, key, old) ==
    IF key \in DOMAIN config_params THEN config_params[key] ELSE old

\* C19: a load_config of a well-formed document leaves in the receiver
\* tree, the processor tree and the plugin chain the section of the document
\* named for each, or what was there when the document has no such section;
\* frames, file_path, file_name and the id counter are as before and no
\* command is sent.
LoadReplacesPresent ==
    [][(Called("load_config") /\ ~arg'.malformed) =>
          /\ fr_config' = SectionOr(arg'.config_params, "receiver_default_config", fr_config)
          /\ fp_config' = SectionOr(arg'.config_params, "processor_default_config", fp_config)
          /\ fp_plugins' = SectionOr(arg'.config_params, "processor_plugins", fp_plugins)
          /\ UNCHANGED <<frames, file_path, file_name, _msg_id, sent>>
          /\ io' = <<>>]_vars

\* C19 witness: a document with the plugin chain alone was loaded over the
\* defaults of an earlier document and a changed frame count; the trees of
\* the earlier document and the frame count are still there.
LoadReplacesPresentWitness ==
    /\ op = "load_config"
    /\ arg = DocPlugins
    /\ fp_plugins = DocPlugins.config_params["processor_plugins"]
    /\ fr_config = DocFull.config_params["receiver_default_config"]
    /\ Has(fp_config, <<"excalibur">>)
    /\ frames = 5

\* C20: in a run given a frame count, when a command is sent the session
\* frame count and hdf.frames of the processor tree are the count given.
FrameOverrideApplied ==
    [][(args.run /\ args.frames # {} /\ Sends) =>
          /\ frames' = Value(args.frames)
          /\ LeafIs(fp_config', <<"hdf", "frames">>, Value(args.frames))]_vars

====
